---- MODULE Spec2Model ----
(***************************************************************************)
(* Model of tsadar/utils/process/postprocess.py: the postprocess           *)
(* orchestrator, the batch evaluator (recalculate_with_chosen_weights),    *)
(* the curvature-based uncertainty estimator (get_sigmas) and the          *)
(* selective refit engine (refit_bad_fits).                                *)
(*                                                                         *)
(* Arrays are functions over 0..n-1 so that indices read as in the source. *)
(* Python dictionaries passed by reference are modelled by the one         *)
(* variable that every alias of them writes to.                            *)
(***************************************************************************)
EXTENDS Integers, Sequences, FiniteSets, TLC

\* ---------------------------------------------------------------- bounds
NumBatches == 2     \* entries of fitted_weights in chunked mode
MaxMutations == 2   \* off-diagonal Hessian entries changed in the get_sigmas comparison

WeightVals == {1, 2}        \* initial best-fit values of the electron parameter
BatchSizes == {1, 2}        \* config["optimizer"]["batch_size"]
RefitVals == {3}            \* values the optimizer may return for a refit sample
ThreshVals == {0, 1}        \* config["other"]["refit_thresh"]
Unassigned == "unassigned"  \* a Python local that no statement has bound yet
Unbound == <<>>             \* the same for a local that holds a structure: <<v>> once bound

Range0(n) == 0 .. (n - 1)

\* ------------------------------------------------------- input structures
SpeciesOrder == <<"electron", "ion-1">>
SpeciesSets == {{"electron"}, {"electron", "ion-1"}}
KeysOf(sp) == IF sp = "electron" THEN {"Te"} ELSE {"Ti"}

\* dict iteration order over (species, key), as the nested for loops visit it
RECURSIVE PairsFrom(_, _)
PairsFrom(S, n) ==
  IF n > Len(SpeciesOrder) THEN <<>>
  ELSE (IF SpeciesOrder[n] \in S
          THEN <<<<SpeciesOrder[n], CHOOSE k \in KeysOf(SpeciesOrder[n]) : TRUE>>>>
          ELSE <<>>) \o PairsFrom(S, n + 1)
ParamPairs(S) == PairsFrom(S, 1)

\* all_data: per-sample electron and ion spectra (one number stands for a lineout)
AllData(N) == [e_data |-> [s \in Range0(N) |-> 4 - (s % 3)],
               i_data |-> [s \in Range0(N) |-> 3 - (s % 3)]]

\* valid point count returned by loss_fn.array_loss
UsedPoints == 6

\* ------------------------------------------------- the loss capability
Sq(x) == x * x

RECURSIVE SumOver(_, _)
SumOver(f, D) ==
  IF D = {} THEN 0
  ELSE LET d == CHOOSE e \in D : TRUE IN f[d] + SumOver(f, D \ {d})

\* the value the forward model sees for the sample at offset k of a weights entry
WSum(w, k) ==
  SumOver([sp \in DOMAIN w |-> SumOver([key \in DOMAIN w[sp] |-> w[sp][key][k]],
                                       DOMAIN w[sp])], DOMAIN w)

\* loss_fn.array_loss(weights, batch): the batch holds the data of inds, in order;
\* offset k of the weights entry is paired with the k-th sample of the batch
ArrayLoss(w, inds, data) ==
  LET n == Len(inds)
      ThryE == [k \in Range0(n) |-> WSum(w, k)]
      ThryI == [k \in Range0(n) |-> WSum(w, k)]
      sqe == [k \in Range0(n) |-> Sq(data.e_data[inds[k + 1]] - ThryE[k])]
      sqi == [k \in Range0(n) |-> Sq(data.i_data[inds[k + 1]] - ThryI[k])]
  IN [loss |-> [k \in Range0(n) |-> sqe[k] + sqi[k]],
      sqds |-> [ele |-> sqe, ion |-> sqi],
      used_points |-> UsedPoints,
      ThryE |-> ThryE, ThryI |-> ThryI]

\* ------------------------------------------------- sorting and chunking
RECURSIVE InsertSorted(_, _)
InsertSorted(x, s) ==
  IF s = <<>> THEN <<x>>
  ELSE IF x <= Head(s) THEN <<x>> \o s
  ELSE <<Head(s)>> \o InsertSorted(x, Tail(s))

RECURSIVE SortAscending(_)
SortAscending(s) == IF s = <<>> THEN <<>> ELSE InsertSorted(Head(s), SortAscending(Tail(s)))

\* the indices left in the order the caller passed them
UnsortedSeq(s) == s

\* sample_indices.sort()
SortIndices(s) == SortAscending(s)

\* np.reshape(sample_indices, (-1, batch_size)): row b of the result
ChunkRow(s, bs, b) == SubSeq(s, b * bs + 1, b * bs + bs)
Reshapable(s, bs) == Len(s) % bs = 0

\* ---------------------------------------------- parameter reconstruction
\* all_params[species][key] = concatenation over the batches, in batch order
ConcatParam(fw, sp, key) ==
  LET n == Cardinality(DOMAIN fw[1][sp][key])
  IN [s \in Range0(Len(fw) * n) |-> fw[(s \div n) + 1][sp][key][s % n]]

AllParams(fw, S) ==
  [sp \in S |-> [key \in KeysOf(sp) |-> ConcatParam(fw, sp, key)]]

\* num_params += len(all_params[k][k2])
NumParams(ap) ==
  SumOver([sp \in DOMAIN ap |->
             SumOver([key \in DOMAIN ap[sp] |-> Cardinality(DOMAIN ap[sp][key])],
                     DOMAIN ap[sp])], DOMAIN ap)

\* ------------------------------------------------------------ get_sigmas
\* A HessianBlock entry hess[sp1][k1][sp2][k2] has shape
\* (batch_size, width, batch_size, width); it is a function over <<i, a, j, b>>.
WidthIdx == {0}
BlockDom(bs) == Range0(bs) \X WidthIdx \X Range0(bs) \X WidthIdx

\* hess[...].shape[1]
BlockWidth(blk) == Cardinality({q[2] : q \in DOMAIN blk})

\* np.squeeze(block)[i, j]: of the squeezed (batch_size, batch_size) array
SqueezedAt(blk, i, j) == blk[<<i, 0, j, 0>>]

\* np.squeeze drops every axis of length 1: with batch_size = 1 nothing is left to index
SqueezeIndexable(bs) == bs > 1

RemoveAt(s, j) == SubSeq(s, 1, j - 1) \o SubSeq(s, j + 1, Len(s))

RECURSIVE Det(_, _, _)
RECURSIVE DetSum(_, _, _, _)
\* determinant of the submatrix of M on rows and cols (Laplace expansion on the first row)
Det(M, rows, cols) ==
  IF rows = <<>> THEN 1 ELSE DetSum(M, rows, cols, 1)
DetSum(M, rows, cols, j) ==
  IF j > Len(cols) THEN 0
  ELSE (IF j % 2 = 1 THEN 1 ELSE -1) * M[<<Head(rows), cols[j]>>]
         * Det(M, Tail(rows), RemoveAt(cols, j))
       + DetSum(M, rows, cols, j + 1)

Abs(x) == IF x < 0 THEN -x ELSE x
Sign(x) == IF x < 0 THEN -1 ELSE IF x > 0 THEN 1 ELSE 0

RECURSIVE Gcd(_, _)
Gcd(a, b) == IF b = 0 THEN a ELSE Gcd(b, a % b)

\* np.sign(v) * np.sqrt(np.abs(v)) for the rational v = num / den, kept exact as
\* <<sign, p, q>> standing for sign * sqrt(p / q) with p / q in lowest terms
SignedSqrt(num, den) ==
  IF num = 0 THEN <<0, 0, 1>>
  ELSE LET g == Gcd(Abs(num), Abs(den))
       IN <<Sign(num) * Sign(den), Abs(num) \div g, Abs(den) \div g>>

\* a curvature matrix read from the cross-sample column [i, 0] instead
AssembleOffDiag(hess, pairs, i) ==
  [rc \in Range0(Len(pairs)) \X Range0(Len(pairs)) |->
     SqueezedAt(hess[pairs[rc[1] + 1][1]][pairs[rc[1] + 1][2]]
                    [pairs[rc[2] + 1][1]][pairs[rc[2] + 1][2]], i, 0)]

\* the per-sample curvature matrix temp of sample i (lines 153-162)
AssembleTemp(hess, pairs, i) ==
  [rc \in Range0(Len(pairs)) \X Range0(Len(pairs)) |->
     SqueezedAt(hess[pairs[rc[1] + 1][1]][pairs[rc[1] + 1][2]]
                    [pairs[rc[2] + 1][1]][pairs[rc[2] + 1][2]], i, i)]

\* sizes and actual_num_params (lines 143-149)
ActualNumParams(hess, pairs) ==
  SumOver([n \in 1 .. Len(pairs) |->
             BlockWidth(hess[pairs[n][1]][pairs[n][2]][pairs[n][1]][pairs[n][2]])],
          1 .. Len(pairs))

IdxSeq(n) == [k \in 1 .. n |-> k - 1]

\* np.sign(np.diag(inv)) * np.sqrt(np.abs(np.diag(inv))) with inv = adj(temp) / det(temp)
SigmaRow(temp, P) ==
  LET all == IdxSeq(P)
      d == Det(temp, all, all)
  IN [k \in Range0(P) |->
        SignedSqrt(Det(temp, RemoveAt(all, k + 1), RemoveAt(all, k + 1)), d)]

Singular(temp, P) == Det(temp, IdxSeq(P), IdxSeq(P)) = 0

\* get_sigmas(hess, batch_size): the exception it raises, or the sigmas array
get_sigmas(hess, bs) ==
  LET pairs == ParamPairs(DOMAIN hess)
      P == ActualNumParams(hess, pairs)
      temp(i) == AssembleTemp(hess, pairs, i)
  IN IF ~SqueezeIndexable(bs) THEN [err |-> "IndexError", sigmas |-> <<>>]
     ELSE IF \E i \in Range0(bs) : Singular(temp(i), P)
       THEN [err |-> "LinAlgError", sigmas |-> <<>>]
     ELSE [err |-> "none", sigmas |-> [i \in Range0(bs) |-> SigmaRow(temp(i), P)]]

\* Hessians the loss capability may return: sample i of the batch has the
\* (species x species) curvature matrix mats[i]; cross-sample entries are 0
SampleMats == { <<2, 0, 0, 1>>, <<1, 1, 1, 1>>, <<1, 2, 2, 1>>, <<-1, 0, 0, 2>> }
MatEntry(m, r, c) == m[2 * r + c + 1]
PairIndex(S, sp) == CHOOSE n \in 1 .. Len(ParamPairs(S)) : ParamPairs(S)[n][1] = sp

HessOf(S, bs, mats) ==
  [sp1 \in S |-> [k1 \in KeysOf(sp1) |-> [sp2 \in S |-> [k2 \in KeysOf(sp2) |->
     [q \in BlockDom(bs) |->
        IF q[1] = q[3]
          THEN MatEntry(mats[q[1]], PairIndex(S, sp1) - 1, PairIndex(S, sp2) - 1)
          ELSE 0]]]]]

\* sigmas[inds] = <(batch_size, actual) array> into the (N, num_params) array:
\* numpy broadcasts the last axis only from length 1 or from an equal length
Broadcastable(actual, num_params) == actual = 1 \/ actual = num_params

\* arr[inds] = vals (numpy index assignment; inds holds no index twice)
Scatter(arr, inds, vals) ==
  [s \in DOMAIN arr |->
     IF \E k \in 1 .. Len(inds) : inds[k] = s
       THEN vals[(CHOOSE k \in 1 .. Len(inds) : inds[k] = s) - 1]
       ELSE arr[s]]

\* the same assignment into the ghost write counter
CountWrites(cnt, inds) ==
  [s \in DOMAIN cnt |-> cnt[s] + Cardinality({k \in 1 .. Len(inds) : inds[k] = s})]

\* --------------------------------------------------------- refit helpers
\* loss / (1.1 * dof) > thresh, in IEEE arithmetic on integers-valued inputs:
\* x / 0 is inf for x > 0 and nan for x = 0, and nan compares false
RedLossAbove(loss, dof, thresh) ==
  IF dof > 0 THEN 10 * loss > 11 * thresh * dof
  ELSE IF dof < 0 THEN 10 * loss < 11 * thresh * dof
  ELSE loss > 0

\* len(all_params): the number of keys of the outer (species) dictionary
LenAllParams(ap) == Cardinality(DOMAIN ap)

\* the degrees-of-freedom correction subtracted from used_points at line 228
DofCorrection(ap) == LenAllParams(ap)

\* batch_indices.flatten()[red_losses_init > thresh]: boolean mask by position
RECURSIVE MaskSelect(_, _, _)
MaskSelect(idx, mask, p) ==
  IF p > Len(idx) THEN <<>>
  ELSE (IF mask[p - 1] THEN <<idx[p]>> ELSE <<>>) \o MaskSelect(idx, mask, p + 1)

\* where the warm start of sample i is read from (lines 250-255)
SeedBatch(i, tbs) == (i - 1) \div tbs
SeedOffset(i, tbs) == (i - 1) % tbs

\* where the result of sample i is written (lines 274-277)
WriteBatch(i, tbs) == i \div tbs

\* the offset the warm start is read from, one sample before i
WriteOffsetPrev(i, tbs) == (i - 1) % tbs

WriteOffset(i, tbs) == i % tbs

\* fitted_weights[b][species][key] = fitted_weights[b][species][key].at[off].set(x)
\* for every species and key of cur_result
WriteResult(fw, i, tbs, x) ==
  LET b == WriteBatch(i, tbs) + 1
      old == fw[b]
  IN [fw EXCEPT ![b] =
        [sp \in DOMAIN old |-> [key \in DOMAIN old[sp] |->
           [old[sp][key] EXCEPT ![WriteOffset(i, tbs)] = x]]]]

\* the loop header's test at lines 235-236
SkipsSample(i) == i = 0

\* ================================================================ state
VARIABLES
  pc,              \* position of the running call
  ret,             \* where recalculate_with_chosen_weights returns to
  exc,             \* the exception that left postprocess, or "none"
  config,          \* the caller's configuration dictionary (and every shallow copy of it)
  sample_indices,  \* the caller's index array
  fitted_weights,  \* one entry per batch: species -> key -> array of batch_size values
  calc_sigma,      \* recalculate_with_chosen_weights: the calc_sigma local
  i_batch,         \* recalculate_with_chosen_weights: loop counter
  losses, sqdevs, fits, sigmas, used_points, all_params, num_params,
  true_batch_size, \* refit_bad_fits locals
  losses_init,     \* refit_bad_fits: the losses of the initial evaluation
  todo,            \* refit_bad_fits: the selected indices, the array the loop iterates
  refit_pos,       \* refit_bad_fits: how many of them the loop has taken
  cur_i,           \* refit_bad_fits: the loop variable i
  res_success,     \* refit_bad_fits: res["success"] of the latest minimize call
  elec_species,    \* postprocess locals
  final_params,
  cfg0, fw0, idx0, \* history: config, fitted_weights, sample_indices as received
  wcount,          \* history: how often each index of losses was written in this evaluation
  hessA, hessB, sigA, sigB, nmut   \* the two get_sigmas runs that are compared

evalVars == <<calc_sigma, i_batch, losses, sqdevs, fits, sigmas, used_points,
              all_params, num_params, wcount>>
refitVars == <<true_batch_size, losses_init, todo, refit_pos, cur_i, res_success>>
postVars == <<elec_species, final_params>>
inputVars == <<config, sample_indices, fitted_weights, cfg0, fw0, idx0>>
sigmaVars == <<hessA, hessB, sigA, sigB, nmut>>
vars == <<pc, ret, exc, inputVars, evalVars, refitVars, postVars, sigmaVars>>

\* ----------------------------------------------------------------- inputs
Identity(N) == [k \in 1 .. N |-> k - 1]
Rotated(N, r) == [k \in 1 .. N |-> (k - 1 + r) % N]
Reversed(N) == [k \in 1 .. N |-> N - k]
Orders(N) == {Identity(N), Rotated(N, 1), Reversed(N)}

InitWeights(S, nb, bs) ==
  { [b \in 1 .. nb |-> [sp \in S |-> [key \in KeysOf(sp) |->
       IF sp = "electron" THEN e[b] ELSE [k \in Range0(bs) |-> 0]]]]
    : e \in [1 .. nb -> [Range0(bs) -> WeightVals]] }

InitConfigs(S, bs) ==
  { [optimizer |-> [batch_size |-> bs],
     other |-> [spectype |-> st, refit |-> rf, calc_sigmas |-> cs, refit_thresh |-> th],
     parameters |-> [sp \in S |-> [key \in KeysOf(sp) |->
        [val |-> 5, active |-> (sp = "electron" \/ ia)]]]]
    : st \in {"angular_full", "temporal"}, rf \in BOOLEAN, cs \in BOOLEAN,
      th \in ThreshVals, ia \in BOOLEAN }

\* the threshold is read only by refit_bad_fits, and an inactive parameter only
\* where a second species exists: the other configurations differ in nothing read
ReadConfigs(S, bs) ==
  { c \in InitConfigs(S, bs) :
      /\ (c.other.spectype = "angular_full" \/ ~c.other.refit) => c.other.refit_thresh = 0
      /\ (S = {"electron"}) => \A sp \in S : \A key \in KeysOf(sp) : c.parameters[sp][key].active }

IdleEval ==
  /\ calc_sigma = FALSE /\ i_batch = 0
  /\ losses = <<>> /\ sqdevs = <<>> /\ fits = <<>> /\ sigmas = <<>>
  /\ used_points = Unassigned /\ all_params = <<>> /\ num_params = 0 /\ wcount = <<>>

IdleRefit ==
  /\ true_batch_size = 0 /\ losses_init = <<>> /\ todo = <<>> /\ refit_pos = 0
  /\ cur_i = 0 /\ res_success = TRUE

IdleSigma == hessA = <<>> /\ hessB = <<>> /\ sigA = <<>> /\ sigB = <<>> /\ nmut = 0

Init ==
  /\ pc = "postprocess" /\ ret = "none" /\ exc = "none"
  /\ \E S \in SpeciesSets, bs \in BatchSizes :
       /\ config \in ReadConfigs(S, bs)
       /\ LET nb == IF config.other.spectype = "angular_full" THEN 1 ELSE NumBatches
          IN /\ fitted_weights \in InitWeights(S, nb, bs)
             /\ sample_indices \in Orders(nb * bs)
  /\ cfg0 = config /\ fw0 = fitted_weights /\ idx0 = sample_indices
  /\ IdleEval /\ IdleRefit /\ IdleSigma
  /\ elec_species = Unassigned /\ final_params = Unbound

Raise(name) == pc' = "raised" /\ exc' = name

\* ================================== recalculate_with_chosen_weights
Zeros(N) == [s \in Range0(N) |-> 0]
ZeroRow(n) == [k \in Range0(n) |-> <<0, 0, 1>>]

\* lines 31-62: allocate the results, sort the caller's indices in place, cut them
\* into rows of batch_size, rebuild all_params and count num_params
RecalcEnter ==
  /\ pc = "recalculate"
  /\ LET N == Len(sample_indices)
         ap == AllParams(fitted_weights, DOMAIN config.parameters)
     IN /\ sample_indices' = SortIndices(sample_indices)
        /\ IF ~Reshapable(sample_indices, config.optimizer.batch_size)
             THEN /\ Raise("ValueError")
                  /\ UNCHANGED evalVars
             ELSE /\ losses' = Zeros(N)
                  /\ all_params' = ap
                  /\ num_params' = NumParams(ap)
                  /\ fits' = [ele |-> Zeros(N), ion |-> Zeros(N)]
                  /\ sqdevs' = [ele |-> Zeros(N), ion |-> Zeros(N)]
                  /\ sigmas' = [s \in Range0(N) |-> ZeroRow(NumParams(ap))]
                  /\ i_batch' = 0
                  /\ wcount' = Zeros(N)
                  /\ pc' = IF config.other.spectype = "angular_full"
                             THEN "recalc_angular" ELSE "recalc_chunk"
                  /\ exc' = exc
                  /\ UNCHANGED <<calc_sigma, used_points>>
  /\ UNCHANGED <<ret, config, fitted_weights, cfg0, fw0, idx0, refitVars, postVars, sigmaVars>>

\* Hessians h_loss_wrt_params returns in the evaluation: every sample of the chunk
\* has the same curvature matrix, regular or singular
FlowMats == { <<2, 0, 0, 1>>, <<1, 1, 1, 1>> }

\* sigmas[inds] = get_sigmas(...): each row broadcast along the parameter axis
SigmaRows(g, P, np) ==
  [k \in DOMAIN g |-> [c \in Range0(np) |-> IF P = 1 THEN g[k][0] ELSE g[k][c]]]

\* lines 113-115
WriteLosses(r, inds) ==
  /\ losses' = Scatter(losses, inds, r.loss)
  /\ sqdevs' = [ele |-> Scatter(sqdevs.ele, inds, r.sqds.ele),
                ion |-> Scatter(sqdevs.ion, inds, r.sqds.ion)]
  /\ wcount' = CountWrites(wcount, inds)

\* lines 120-121
WriteFits(r, inds) ==
  fits' = [ele |-> Scatter(fits.ele, inds, r.ThryE),
           ion |-> Scatter(fits.ion, inds, r.ThryI)]

\* lines 93-121: one iteration of the chunk loop
RecalcChunk ==
  /\ pc = "recalc_chunk"
  /\ i_batch < Len(sample_indices) \div config.optimizer.batch_size
  /\ LET bs == config.optimizer.batch_size
         inds == ChunkRow(sample_indices, bs, i_batch)
         r == ArrayLoss(fitted_weights[i_batch + 1], inds, AllData(Len(sample_indices)))
     IN /\ used_points' = r.used_points
        /\ \/ /\ ~calc_sigma
              /\ WriteLosses(r, inds) /\ WriteFits(r, inds)
              /\ i_batch' = i_batch + 1
              /\ UNCHANGED <<pc, exc, calc_sigma, sigmas>>
           \/ \* line 106: the call outside the try block raises
              /\ calc_sigma
              /\ Raise("HessianError")
              /\ UNCHANGED <<calc_sigma, i_batch, losses, sqdevs, fits, sigmas, wcount>>
           \/ \* line 106 returns, the call inside the try block raises and is caught
              /\ calc_sigma
              /\ calc_sigma' = FALSE
              /\ WriteLosses(r, inds) /\ WriteFits(r, inds)
              /\ i_batch' = i_batch + 1
              /\ UNCHANGED <<pc, exc, sigmas>>
           \/ \* both calls return a Hessian
              /\ calc_sigma
              /\ \E m \in FlowMats :
                   LET hess == HessOf(DOMAIN config.parameters, bs, [i \in Range0(bs) |-> m])
                       g == get_sigmas(hess, bs)
                       P == ActualNumParams(hess, ParamPairs(DOMAIN hess))
                   IN /\ WriteLosses(r, inds)
                      /\ IF g.err # "none"
                           THEN /\ Raise(g.err)
                                /\ UNCHANGED <<i_batch, fits, sigmas>>
                           ELSE IF ~Broadcastable(P, num_params)
                             THEN /\ Raise("ValueError")
                                  /\ UNCHANGED <<i_batch, fits, sigmas>>
                             ELSE /\ sigmas' = Scatter(sigmas, inds,
                                                       SigmaRows(g.sigmas, P, num_params))
                                  /\ WriteFits(r, inds)
                                  /\ i_batch' = i_batch + 1
                                  /\ UNCHANGED <<pc, exc>>
              /\ UNCHANGED calc_sigma
  /\ UNCHANGED <<ret, inputVars, all_params, num_params, refitVars, postVars, sigmaVars>>

\* lines 64-90: the full-batch branch, one call of the loss capability
RecalcAngular ==
  /\ pc = "recalc_angular"
  /\ LET bs == config.optimizer.batch_size
         N == Len(sample_indices)
         inds == Identity(N)
         r == ArrayLoss(fitted_weights[1], inds, AllData(N))
     IN /\ used_points' = r.used_points
        /\ losses' = r.loss
        /\ wcount' = CountWrites(wcount, inds)
        /\ fits' = [fits EXCEPT !.ele = r.ThryE]
        /\ sqdevs' = [sqdevs EXCEPT !.ele = r.sqds.ele]
        /\ \/ /\ ~calc_sigma
              /\ pc' = ret /\ UNCHANGED <<exc, sigmas>>
           \/ /\ calc_sigma
              /\ Raise("HessianError") /\ UNCHANGED sigmas
           \/ /\ calc_sigma
              /\ \E m \in FlowMats :
                   LET g == get_sigmas(HessOf(DOMAIN config.parameters, bs,
                                              [i \in Range0(bs) |-> m]), bs)
                   IN IF g.err # "none"
                        THEN Raise(g.err) /\ UNCHANGED sigmas
                        ELSE /\ sigmas' = g.sigmas
                             /\ pc' = ret /\ UNCHANGED exc
  /\ UNCHANGED <<ret, inputVars, calc_sigma, i_batch, all_params, num_params,
                 refitVars, postVars, sigmaVars>>

\* line 123: the loop is over, return to the caller
RecalcReturn ==
  /\ pc = "recalc_chunk"
  /\ i_batch = Len(sample_indices) \div config.optimizer.batch_size
  /\ pc' = ret
  /\ UNCHANGED <<ret, exc, inputVars, evalVars, refitVars, postVars, sigmaVars>>

\* ======================================================= refit_bad_fits
\* line 223: the initial evaluation, without curvature
RefitCall ==
  /\ pc = "refit_bad_fits"
  /\ pc' = "recalculate" /\ ret' = "refit_select" /\ calc_sigma' = FALSE
  /\ UNCHANGED <<exc, inputVars, i_batch, losses, sqdevs, fits, sigmas, used_points,
                 all_params, num_params, wcount, refitVars, postVars, sigmaVars>>

\* red_losses_init > config["other"]["refit_thresh"], by position (line 228)
RefitMask ==
  [p \in DOMAIN losses |->
     RedLossAbove(losses[p], used_points - DofCorrection(all_params),
                  config.other.refit_thresh)]

\* lines 228-234: the reduced losses, true_batch_size and the selected indices
RefitSelect ==
  /\ pc = "refit_select"
  /\ losses_init' = losses
  /\ true_batch_size' = config.optimizer.batch_size
  /\ todo' = MaskSelect(sample_indices, RefitMask, 1)
  /\ refit_pos' = 0
  /\ pc' = "refit_loop"
  /\ UNCHANGED <<ret, exc, inputVars, evalVars, cur_i, res_success, postVars, sigmaVars>>

\* lines 234-236: take the next selected index, skipping index 0
RefitNext ==
  /\ pc = "refit_loop"
  /\ IF refit_pos >= Len(todo)
       THEN pc' = "refit_restore" /\ UNCHANGED <<refit_pos, cur_i>>
       ELSE /\ refit_pos' = refit_pos + 1
            /\ cur_i' = todo[refit_pos + 1]
            /\ pc' = IF SkipsSample(todo[refit_pos + 1]) THEN "refit_loop" ELSE "refit_seed"
  /\ UNCHANGED <<ret, exc, inputVars, evalVars, true_batch_size, losses_init, todo,
                 res_success, postVars, sigmaVars>>

\* lines 248-255: temp_cfg = copy.copy(config) is a shallow copy, so
\* temp_cfg["optimizer"] and temp_cfg["parameters"] are the caller's dictionaries
RefitSeed ==
  /\ pc = "refit_seed"
  /\ LET w == fitted_weights[SeedBatch(cur_i, true_batch_size) + 1]
         off == SeedOffset(cur_i, true_batch_size)
     IN config' = [config EXCEPT
          !.optimizer.batch_size = 1,
          !.parameters = [sp \in DOMAIN @ |-> [key \in DOMAIN @[sp] |->
             IF sp \in DOMAIN w /\ key \in DOMAIN w[sp] /\ @[sp][key].active
               THEN [@[sp][key] EXCEPT !.val = w[sp][key][off]]
               ELSE @[sp][key]]]]
  /\ pc' = "refit_minimize"
  /\ UNCHANGED <<ret, exc, sample_indices, fitted_weights, cfg0, fw0, idx0, evalVars,
                 refitVars, postVars, sigmaVars>>

\* lines 257-278: build the single-sample loss function, minimize, unpack, write back
RefitOptimize ==
  /\ pc = "refit_minimize"
  /\ \/ \E e \in {"LossFunctionError", "OptimizerError", "UnravelError"} :
          /\ Raise(e)
          /\ UNCHANGED <<fitted_weights, res_success>>
     \/ \E success \in BOOLEAN, x \in RefitVals :
          /\ fitted_weights' = WriteResult(fitted_weights, cur_i, true_batch_size, x)
          /\ res_success' = success
          /\ pc' = "refit_loop"
          /\ exc' = exc
  /\ UNCHANGED <<ret, config, sample_indices, cfg0, fw0, idx0, evalVars,
                 true_batch_size, losses_init, todo, refit_pos, cur_i, postVars, sigmaVars>>

\* line 287
RefitRestore ==
  /\ pc = "refit_restore"
  /\ config' = [config EXCEPT !.optimizer.batch_size = true_batch_size]
  /\ pc' = "dispatch"
  /\ UNCHANGED <<ret, exc, sample_indices, fitted_weights, cfg0, fw0, idx0, evalVars,
                 refitVars, postVars, sigmaVars>>

\* ========================================================== postprocess
\* lines 193-200
PostStart ==
  /\ pc = "postprocess"
  /\ elec_species' = IF "electron" \in DOMAIN config.parameters
                       THEN "electron" ELSE elec_species
  /\ pc' = IF config.other.spectype # "angular_full" /\ config.other.refit
             THEN "refit_bad_fits" ELSE "dispatch"
  /\ UNCHANGED <<ret, exc, inputVars, evalVars, refitVars, final_params, sigmaVars>>

\* lines 204-212: the call of the mode's processing function
PostDispatch ==
  /\ pc = "dispatch"
  /\ IF config.other.spectype = "angular_full"
       THEN IF elec_species = Unassigned
              THEN Raise("UnboundLocalError")
              ELSE pc' = "process_angular_data" /\ exc' = exc
       ELSE pc' = "process_data" /\ exc' = exc
  /\ UNCHANGED <<ret, inputVars, evalVars, refitVars, postVars, sigmaVars>>

\* lines 291-293
ProcessDataCall ==
  /\ pc = "process_data"
  /\ pc' = "recalculate" /\ ret' = "process_data_finish"
  /\ calc_sigma' = config.other.calc_sigmas
  /\ UNCHANGED <<exc, inputVars, i_batch, losses, sqdevs, fits, sigmas, used_points,
                 all_params, num_params, wcount, refitVars, postVars, sigmaVars>>

\* lines 294-307 and the assignment at line 212
ProcessDataFinish ==
  /\ pc = "process_data_finish"
  /\ final_params' = <<all_params>>
  /\ pc' = "return"
  /\ UNCHANGED <<ret, exc, inputVars, evalVars, refitVars, elec_species, sigmaVars>>

\* lines 311-322, with best_weights_val = fitted_weights (num_mins = 1)
ProcessAngularCall ==
  /\ pc = "process_angular_data"
  /\ pc' = "recalculate" /\ ret' = "process_angular_finish"
  /\ calc_sigma' = config.other.calc_sigmas
  /\ UNCHANGED <<exc, inputVars, i_batch, losses, sqdevs, fits, sigmas, used_points,
                 all_params, num_params, wcount, refitVars, postVars, sigmaVars>>

\* lines 324-336 and the assignment at line 207: only t1 comes back, the
\* final_params of process_angular_data is a local of that function
ProcessAngularFinish ==
  /\ pc = "process_angular_finish"
  /\ pc' = "return"
  /\ UNCHANGED <<ret, exc, inputVars, evalVars, refitVars, postVars, sigmaVars>>

\* line 219: return final_params
PostReturn ==
  /\ pc = "return"
  /\ IF final_params = Unbound
       THEN Raise("UnboundLocalError")
       ELSE pc' = "done" /\ exc' = exc
  /\ UNCHANGED <<ret, inputVars, evalVars, refitVars, postVars, sigmaVars>>

Next ==
  \/ PostStart \/ PostDispatch \/ PostReturn
  \/ RefitCall \/ RefitSelect \/ RefitNext \/ RefitSeed \/ RefitOptimize \/ RefitRestore
  \/ ProcessDataCall \/ ProcessDataFinish \/ ProcessAngularCall \/ ProcessAngularFinish
  \/ RecalcEnter \/ RecalcChunk \/ RecalcAngular \/ RecalcReturn

Spec == Init /\ [][Next]_vars

\* =============================================== get_sigmas on two inputs
\* Two Hessians with the same shapes and the same [i, i] entries, differing in
\* cross-sample entries only, are handed to get_sigmas.
OffDiagVals == {-1, 4}

BatchOf(hess) ==
  LET sp == CHOOSE s \in DOMAIN hess : TRUE
      key == CHOOSE k \in DOMAIN hess[sp] : TRUE
  IN Cardinality({q[1] : q \in DOMAIN hess[sp][key][sp][key]})

InitSigma ==
  /\ pc = "get_sigmas" /\ ret = "none" /\ exc = "none"
  /\ config = <<>> /\ sample_indices = <<>> /\ fitted_weights = <<>>
  /\ cfg0 = <<>> /\ fw0 = <<>> /\ idx0 = <<>>
  /\ IdleEval /\ IdleRefit
  /\ elec_species = Unassigned /\ final_params = Unbound
  /\ \E S \in SpeciesSets, bs \in BatchSizes :
       hessA \in {HessOf(S, bs, mats) : mats \in [Range0(bs) -> SampleMats]}
  /\ hessB = hessA
  /\ sigA = <<>> /\ sigB = <<>> /\ nmut = 0

\* change one cross-sample entry [i, j], i # j, of one block of either input
SigmaMutate ==
  /\ pc = "get_sigmas"
  /\ nmut < MaxMutations
  /\ \E sp1 \in DOMAIN hessB, sp2 \in DOMAIN hessB, v \in OffDiagVals :
     \E k1 \in KeysOf(sp1), k2 \in KeysOf(sp2) :
     \E i \in Range0(BatchOf(hessB)), j \in Range0(BatchOf(hessB)) :
       /\ i # j
       /\ \/ /\ hessB[sp1][k1][sp2][k2][<<i, 0, j, 0>>] # v
             /\ hessB' = [hessB EXCEPT ![sp1][k1][sp2][k2][<<i, 0, j, 0>>] = v]
             /\ hessA' = hessA
          \/ /\ hessA[sp1][k1][sp2][k2][<<i, 0, j, 0>>] # v
             /\ hessA' = [hessA EXCEPT ![sp1][k1][sp2][k2][<<i, 0, j, 0>>] = v]
             /\ hessB' = hessB
  /\ nmut' = nmut + 1
  /\ UNCHANGED <<pc, ret, exc, inputVars, evalVars, refitVars, postVars, sigA, sigB>>

\* the two calls of get_sigmas
SigmaCall ==
  /\ pc = "get_sigmas"
  /\ sigA' = get_sigmas(hessA, BatchOf(hessA))
  /\ sigB' = get_sigmas(hessB, BatchOf(hessB))
  /\ pc' = "sigmas_returned"
  /\ UNCHANGED <<ret, exc, inputVars, evalVars, refitVars, postVars, hessA, hessB, nmut>>

NextSigma == SigmaMutate \/ SigmaCall

SpecSigma == InitSigma /\ [][NextSigma]_vars

\* =============================================================== claims
NSamples == Len(sample_indices)

\* the slot of sample s in a weights collection whose entries hold bs samples
Slot(fw, s, bs, sp, key) == fw[(s \div bs) + 1][sp][key][s % bs]

SlotsEqual(s, bs) ==
  \A sp \in DOMAIN fw0[1] : \A key \in DOMAIN fw0[1][sp] :
    Slot(fitted_weights, s, bs, sp, key) = Slot(fw0, s, bs, sp, key)

RefitStarted == losses_init # <<>>

\* red_losses_init[i] > refit_thresh, with the correction the code subtracts
AboveThreshold(i) ==
  RedLossAbove(losses_init[i], used_points - DofCorrection(all_params),
               config.other.refit_thresh)

SelectedSamples == {i \in Range0(NSamples) \ {0} : AboveThreshold(i)}

\* C1: refit_bad_fits changes no FittedWeights slot other than those of the selected
\* samples (reduced loss above the threshold, i # 0) at batch i // batch_size,
\* offset i % batch_size; sample 0 is never changed; no entry changes length.
C1_RefitFrame ==
  /\ Len(fitted_weights) = Len(fw0)
  /\ \A b \in 1 .. Len(fw0) : \A sp \in DOMAIN fw0[b] : \A key \in DOMAIN fw0[b][sp] :
       /\ DOMAIN fitted_weights[b] = DOMAIN fw0[b]
       /\ DOMAIN fitted_weights[b][sp] = DOMAIN fw0[b][sp]
       /\ DOMAIN fitted_weights[b][sp][key] = DOMAIN fw0[b][sp][key]
  /\ fitted_weights # fw0 => RefitStarted
  /\ RefitStarted =>
       \A s \in Range0(NSamples) :
         s \notin SelectedSamples => SlotsEqual(s, true_batch_size)

\* the loop is over, two selected samples were rewritten, sample 0 was above
\* the threshold and kept its weights, and an unselected sample exists
C1_Witness ==
  /\ pc = "dispatch" /\ RefitStarted
  /\ AboveThreshold(0) /\ SlotsEqual(0, true_batch_size)
  /\ \E s \in SelectedSamples, u \in SelectedSamples :
       s # u /\ ~SlotsEqual(s, true_batch_size) /\ ~SlotsEqual(u, true_batch_size)
  /\ \E s \in Range0(NSamples) \ {0} : s \notin SelectedSamples

InsideRefit ==
  \/ pc \in {"refit_bad_fits", "refit_select", "refit_loop", "refit_seed",
             "refit_minimize", "refit_restore"}
  \/ pc \in {"recalculate", "recalc_chunk"} /\ ret = "refit_select"

\* C2: whenever refit_bad_fits has been left, by its return or by an exception
\* raised inside the loop, config["optimizer"]["batch_size"] has its original value.
C2_BatchSizeRestoredOnEveryExit ==
  ~InsideRefit => config.optimizer.batch_size = cfg0.optimizer.batch_size

\* C3: an optimizer failure (minimize raising, or returning an unsuccessful result)
\* does not abort the refit loop, and the failed sample keeps its pre-refit weights.
C3_OptimizerFailureIsLocal ==
  /\ ~(pc = "raised" /\ exc = "OptimizerError")
  /\ (pc = "refit_loop" /\ refit_pos > 0 /\ ~SkipsSample(cur_i) /\ ~res_success)
       => SlotsEqual(cur_i, true_batch_size)

\* C4: in chunked mode with curvature enabled, a failing curvature computation (the
\* Hessian evaluation raising, or a singular per-sample matrix) does not abort
\* recalculate_with_chosen_weights: sigma computation is skipped from that chunk
\* on while losses, squared deviations and fits are written for every chunk.
C4_CurvatureFailureDegrades ==
  config.other.spectype # "angular_full" =>
    ~(pc = "raised" /\ exc \in {"HessianError", "LinAlgError"})

\* C5: the warm start of a selected sample i is seeded from that sample's own
\* current best-fit values, FittedWeights[i // batch_size] at offset i % batch_size.
C5_WarmStartFromOwnSample ==
  pc = "refit_minimize" =>
    \A sp \in DOMAIN config.parameters : \A key \in DOMAIN config.parameters[sp] :
      config.parameters[sp][key].active =>
        config.parameters[sp][key].val
          = Slot(fitted_weights, cur_i, true_batch_size, sp, key)

\* C6: the samples chosen for refit are exactly the i # 0 with
\* loss_i / (1.1 * (valid_points - num_params)) above the threshold, num_params
\* being the total count of scalar parameter slots across all species.
C6_SelectionUsesNumParams ==
  (RefitStarted /\ InsideRefit) =>
    {todo[k] : k \in 1 .. Len(todo)} \ {0}
      = {i \in Range0(NSamples) \ {0} :
           RedLossAbove(losses_init[i], used_points - num_params,
                        config.other.refit_thresh)}

\* C7: after refit_bad_fits returns, every field of the caller's config other than
\* optimizer.batch_size, in particular every parameters[species][key]["val"], has
\* the value it had before the call.
C7_ConfigOtherwiseReadOnly ==
  pc = "dispatch" =>
    /\ config.parameters = cfg0.parameters
    /\ config.other = cfg0.other

\* what the loss capability computes for sample s from its own weights slot
OwnWSum(s, bs) == WSum(fitted_weights[(s \div bs) + 1], s % bs)
OwnSqE(s, bs) == Sq(AllData(NSamples).e_data[s] - OwnWSum(s, bs))
OwnSqI(s, bs) == Sq(AllData(NSamples).i_data[s] - OwnWSum(s, bs))

\* C8: in chunked mode, whatever the order of sample_indices over 0..N-1, the
\* indices are sorted and cut into contiguous chunks of batch_size, chunk b is
\* evaluated against fitted_weights[b], every index is written exactly once, and
\* the loss, squared deviation and fit at index s are those of sample s computed
\* with weights entry s // batch_size at offset s % batch_size.
C8_ScatterIsIndexStable ==
  LET bs == config.optimizer.batch_size IN
  /\ pc = "recalc_chunk" =>
       /\ sample_indices = Identity(NSamples)
       /\ \A s \in Range0(NSamples) :
            wcount[s] = IF s \div bs < i_batch THEN 1 ELSE 0
  /\ pc \in {"refit_select", "process_data_finish"} =>
       \A s \in Range0(NSamples) :
         /\ wcount[s] = 1
         /\ losses[s] = OwnSqE(s, bs) + OwnSqI(s, bs)
         /\ sqdevs.ele[s] = OwnSqE(s, bs) /\ sqdevs.ion[s] = OwnSqI(s, bs)
         /\ fits.ele[s] = OwnWSum(s, bs) /\ fits.ion[s] = OwnWSum(s, bs)

\* an evaluation of two chunks returned for indices that arrived unsorted, with
\* weights that differ between the chunks and within one
C8_Witness ==
  /\ pc = "process_data_finish"
  /\ idx0 # Identity(NSamples) /\ idx0[1] # 0
  /\ i_batch = NumBatches /\ config.optimizer.batch_size > 1
  /\ fitted_weights[1] # fitted_weights[2]
  /\ OwnWSum(0, config.optimizer.batch_size) # OwnWSum(1, config.optimizer.batch_size)

\* C9: get_sigmas never reads cross-sample Hessian terms: two inputs with the same
\* shapes and the same [i, i] entries, however their [i, j] entries with i # j
\* differ, give the same per-sample curvature matrices and the same result.
C9_OffDiagonalIgnored ==
  /\ \A i \in Range0(BatchOf(hessA)) :
       AssembleTemp(hessA, ParamPairs(DOMAIN hessA), i)
         = AssembleTemp(hessB, ParamPairs(DOMAIN hessB), i)
  /\ pc = "sigmas_returned" => sigA = sigB

\* both calls returned sigmas, one of them negative, for inputs that differ in two
\* cross-sample entries
C9_Witness ==
  /\ pc = "sigmas_returned" /\ nmut = 2 /\ hessA # hessB
  /\ sigA.err = "none" /\ sigB.err = "none"
  /\ \E i \in DOMAIN sigA.sigmas : \E k \in DOMAIN sigA.sigmas[i] :
       sigA.sigmas[i][k][1] = -1

\* C10: postprocess reaches its return with final_params assigned in both data
\* modes and returns it; no path reaches the return with final_params or the
\* electron species name unassigned.
C10_ReturnsFinalParams ==
  /\ pc = "return" => final_params # Unbound
  /\ ~(pc = "raised" /\ exc = "UnboundLocalError")
====
